---------------------------- MODULE Spec2Model ----------------------------
(***************************************************************************)
(* Model of the generational search controller of RO_Vie:                  *)
(* src/src/memetic.py (memetic_heuristic, update_population,               *)
(* restart_population, extract_best_from_population) and the earlier       *)
(* src/memetic.py (find_best_ordo_in_list).                                *)
(*                                                                         *)
(* A scheduling (Ordonnancement) is abstracted to its duration and the job *)
(* order that tells it from another scheduling of the same duration.  The  *)
(* collaborators that are imported but are not part of src/ (crossover,    *)
(* mutation, local search, initial population, is_convergent,              *)
(* population_statistics) are modelled by their contract.  The clock is in *)
(* whole seconds; preserved_prop is a fraction n / PropDen.                *)
(***************************************************************************)
EXTENDS Integers, Sequences, FiniteSets, TLC

VARIABLES
    pc,                         \* position in memetic_heuristic
    parameters,                 \* the parameters dict (a key may be missing)
    population,
    list_statistics,
    overall_best_scheduling,
    iterations_where_restart,
    index,
    iteration_time,
    start_time_iteration,
    now,                        \* time.time() - start_time
    flowshop,                   \* the instance: the schedulings it admits
    env,                        \* what the collaborators of this run can do
    change_left,                \* operator calls that may still alter the population
    conv_left,                  \* is_convergent calls that may still answer True
    calls,                      \* operators called by the last update_population
    restart_log,                \* per recorded restart: why it happened
    last_restart                \* input, fresh members and output of the last restart

vars == <<pc, parameters, population, list_statistics, overall_best_scheduling,
          iterations_where_restart, index, iteration_time, start_time_iteration,
          now, flowshop, env, change_left, conv_left, calls, restart_log,
          last_restart>>

----------------------------------------------------------------------------
(* Bounds of the model *)

\* durations are 1..MaxDur
MaxDur == 2
\* populations have 1..MaxPop members (larger ones repeat a block of MaxPop)
MaxPop == 2
\* generations a run may start
MaxGen == 19
\* operator calls of a run that may alter the population
MaxChange == 1
\* is_convergent calls of a run that may answer True
MaxConv == 1

(* Program constants *)

\* the 10 of lines 111-113 (len > 9 is len > Window - 1)
Window == 10
\* the 60 and the 1 of line 98
SecondsPerMinute == 60
SafetyMargin == 1
\* preserved_prop is held as its numerator over PropDen
PropDen == 4

----------------------------------------------------------------------------
(* Schedulings and populations *)

Schedules == [duree : 1..MaxDur, order : {"a", "b"}]

NoSchedule == [duree |-> 0, order |-> "a"]

duree(sched) == sched.duree

MinOf(S) == CHOOSE x \in S : \A y \in S : x <= y
MaxOf(S) == CHOOSE x \in S : \A y \in S : x >= y

\* Populations of n members: every sequence when n <= MaxPop, and beyond
\* that the sequences that repeat a block of MaxPop members.
PopsOf(fs, n) ==
    LET b == IF n < MaxPop THEN n ELSE MaxPop
    IN  IF n <= 0 THEN {<< >>}
        ELSE {[i \in 1..n |-> base[((i - 1) % b) + 1]] : base \in [1..b -> fs]}

RECURSIVE SumDuree(_)
SumDuree(pop) ==
    IF pop = << >> THEN 0 ELSE duree(Head(pop)) + SumDuree(Tail(pop))

Durees(pop) == {duree(pop[i]) : i \in 1..Len(pop)}

\* min(population, key=lambda sched: sched.duree()): the first minimal member
MinSched(pop) ==
    LET m == MinOf(Durees(pop))
        i == CHOOSE i \in 1..Len(pop) :
                /\ duree(pop[i]) = m
                /\ \A j \in 1..(i - 1) : duree(pop[j]) # m
    IN  pop[i]

\* population_statistics.population_statistics: (mean, min, max); the mean
\* is kept as the pair <<sum, count>>
population_statistics(pop) ==
    << <<SumDuree(pop), Len(pop)>>, MinOf(Durees(pop)), MaxOf(Durees(pop)) >>

\* initial_population.initial_pop(..., pop_init_size=n)
initial_pop(fs, n) == PopsOf(fs, n)

\* What a collaborator that raised hands back
Raised == <<[duree |-> -1, order |-> "raised"]>>

\* initial_population.random_initial_pop(flowshop, n); asked for a negative
\* number of members it returns none or raises
random_initial_pop(fs, n) ==
    IF n < 0 THEN {<< >>, Raised} ELSE PopsOf(fs, n)

\* One operator of the pipeline (crossover, mutation, local search): a
\* population of the same size, the input itself when canChange is FALSE
OperatorResults(fs, pop, canChange) ==
    IF canChange THEN PopsOf(fs, Len(pop)) \ {pop} ELSE {pop}

crossover(fs, pop, canChange) == OperatorResults(fs, pop, canChange)
mutation(fs, pop, canChange) == OperatorResults(fs, pop, canChange)
local_search(fs, pop, canChange) == OperatorResults(fs, pop, canChange)

----------------------------------------------------------------------------
(* restart_population and extract_best_from_population *)

\* Python's int(): truncation towards zero of num / den, den > 0
IntOf(num, den) ==
    IF num >= 0 THEN num \div den ELSE -((-num) \div den)

\* Python's seq[:k]
Prefix(seq, k) ==
    LET n == IF k >= 0 THEN (IF k > Len(seq) THEN Len(seq) ELSE k)
             ELSE (IF Len(seq) + k < 0 THEN 0 ELSE Len(seq) + k)
    IN  SubSeq(seq, 1, n)

\* The sort with reverse=True: longest first
SortedDescending(pop) ==
    LET rank(i) == Cardinality({j \in 1..Len(pop) : duree(pop[j]) > duree(pop[i])})
                 + Cardinality({j \in 1..(i - 1) : duree(pop[j]) = duree(pop[i])})
                 + 1
    IN  [k \in 1..Len(pop) |-> pop[CHOOSE i \in 1..Len(pop) : rank(i) = k]]

\* sorted(population, key=duree, reverse=False): a stable sort
SortedByDuree(pop) ==
    LET rank(i) == Cardinality({j \in 1..Len(pop) : duree(pop[j]) < duree(pop[i])})
                 + Cardinality({j \in 1..(i - 1) : duree(pop[j]) = duree(pop[i])})
                 + 1
    IN  [k \in 1..Len(pop) |-> pop[CHOOSE i \in 1..Len(pop) : rank(i) = k]]

\* The first members taken without sorting
ExtractFirstUnsorted(pop, preserved_size) ==
    Prefix(pop, preserved_size)

extract_best_from_population(pop, preserved_size) ==
    Prefix(SortedByDuree(pop), preserved_size)

preserved_size_of(pop, preserved_prop) ==
    IntOf(Len(pop) * preserved_prop, PropDen)

\* The random part sized as int(len * (1 - preserved_prop))
RandomSizeRounded(pop, preserved_prop) ==
    IntOf(Len(pop) * (PropDen - preserved_prop), PropDen)

random_size_of(pop, preserved_prop) ==
    Len(pop) - preserved_size_of(pop, preserved_prop)

restart_population(pop, preserved_prop, fresh) ==
    extract_best_from_population(pop, preserved_size_of(pop, preserved_prop)) \o fresh

----------------------------------------------------------------------------
(* The decisions of memetic_heuristic *)

\* The budget test without the duration of the previous generation
BudgetLeftElapsedOnly(elapsed, last_iteration_time, time_limit) ==
    elapsed + SafetyMargin < SecondsPerMinute * time_limit

\* The budget test on the size of time_limit, whatever its sign
BudgetLeftUnsigned(elapsed, last_iteration_time, time_limit) ==
    elapsed + last_iteration_time + SafetyMargin
        < SecondsPerMinute * (IF time_limit < 0 THEN -time_limit ELSE time_limit)

\* The budget test with time_limit taken in seconds
BudgetLeftInSeconds(elapsed, last_iteration_time, time_limit) ==
    elapsed + last_iteration_time + SafetyMargin < time_limit

\* The budget test without the elapsed time
BudgetLeftNoElapsed(elapsed, last_iteration_time, time_limit) ==
    last_iteration_time + SafetyMargin < SecondsPerMinute * time_limit

\* line 98: time.time() - start_time + iteration_time + 1 < 60 * time_limit
BudgetLeft(elapsed, last_iteration_time, time_limit) ==
    elapsed + last_iteration_time + SafetyMargin < SecondsPerMinute * time_limit

\* The best replaced also by a scheduling of the same duration
NewOverallBestOnTie(overall, best_sched) ==
    IF duree(overall) >= duree(best_sched) THEN best_sched ELSE overall

\* The best of the generation taken without the comparison
NewOverallBestLatest(overall, best_sched) == best_sched

\* lines 104-105
NewOverallBest(overall, best_sched) ==
    IF duree(overall) > duree(best_sched) THEN best_sched ELSE overall

\* The stagnation test waiting for one more history entry
StagnationLate(stats, restarts, idx) ==
    /\ Len(stats) > Window
    /\ (restarts = << >> \/ idx >= restarts[Len(restarts)] + Window)
    /\ \A i, j \in (Len(stats) - Window + 1)..Len(stats) : stats[i][2] = stats[j][2]

\* The stagnation test without its condition on the last restart
StagnationUnlimited(stats, restarts, idx) ==
    /\ Len(stats) > Window - 1
    /\ \A i, j \in (Len(stats) - Window + 1)..Len(stats) : stats[i][2] = stats[j][2]

\* lines 111-114: the stagnation test
StagnationWindow(stats) ==
    LET n  == Len(stats)
        lo == IF n - Window > 0 THEN n - Window ELSE 0
    IN  {stats[k + 1][2] : k \in lo..(n - 1)}

\* The stagnation test passed one history entry early (len > 8)
StagnationEarly(stats, restarts, idx) ==
    /\ Len(stats) > Window - 2
    /\ (restarts = << >> \/ idx >= restarts[Len(restarts)] + Window)
    /\ MinOf(StagnationWindow(stats)) = MaxOf(StagnationWindow(stats))

Stagnation(stats, restarts, idx) ==
    /\ Len(stats) > Window - 1
    /\ (restarts = << >> \/ idx >= restarts[Len(restarts)] + Window)
    /\ MinOf(StagnationWindow(stats)) = MaxOf(StagnationWindow(stats))

\* The restart made only when convergence and stagnation both hold
RestartDecisionBoth(convergent, restart) == convergent /\ restart

\* line 116
RestartDecision(convergent, restart) == convergent \/ restart

\* The restart recorded under the number of history entries
RecordRestartByLength(restarts, idx) == Append(restarts, idx + 1)

\* The restart list set to the one index instead of appended to
RecordRestartReplacing(restarts, idx) == <<idx>>

\* line 117
RecordRestart(restarts, idx) == Append(restarts, idx)

\* The newest history entry overwritten instead of a new one appended
OverwriteStatistics(stats, statistics) ==
    [stats EXCEPT ![Len(stats)] = statistics]

\* line 107
AppendStatistics(stats, statistics) == Append(stats, statistics)

----------------------------------------------------------------------------
(* memetic_heuristic *)

Keys == {"pop_init_size", "time_limit", "use_ls", "preserved_prop"}

Has(key) == key \in DOMAIN parameters

NoRestart == [at |-> 0, input |-> << >>, size |-> 0, fresh |-> << >>,
              output |-> << >>, best |-> NoSchedule]

\* lines 83-97
Start ==
    /\ pc = "start"
    /\ IF ~Has("pop_init_size")
       THEN /\ pc' = "KeyError"
            /\ UNCHANGED <<population, list_statistics, overall_best_scheduling,
                           now>>
       ELSE \E pop \in initial_pop(flowshop, parameters["pop_init_size"]), t \in env.setup_times :
            /\ population' = pop
            /\ list_statistics' = <<population_statistics(pop)>>
            /\ overall_best_scheduling' = MinSched(pop)
            /\ now' = t
            /\ pc' = "test"
    /\ iterations_where_restart' = << >>
    /\ index' = 0
    /\ iteration_time' = 0
    /\ UNCHANGED <<parameters, start_time_iteration, flowshop, env, change_left, conv_left,
                   calls, restart_log, last_restart>>

\* line 98, and line 122 when the test fails
LoopTest ==
    /\ pc = "test"
    /\ IF ~Has("time_limit")
       THEN pc' = "KeyError"
       ELSE IF BudgetLeft(now, iteration_time, parameters["time_limit"])
            THEN /\ index < env.max_gen
                 /\ pc' = "update"
            ELSE pc' = "done"
    /\ UNCHANGED <<parameters, population, list_statistics, overall_best_scheduling,
                   iterations_where_restart, index, iteration_time,
                   start_time_iteration, now, flowshop, env, change_left, conv_left, calls,
                   restart_log, last_restart>>

\* One call of an operator: what it was given and what it returned
Call(op, input, output) == [op |-> op, input |-> input, output |-> output]

\* update_population with mutation given the population that crossover was
\* given, and local search the one that mutation was given
UpdatePopulationUnchained(pop, fs, use_ls, changes) ==
    UNION {UNION {{<<Call("crossover", pop, crossed),
                     Call("mutation", pop, mutated)>>
                   \o (IF use_ls
                       THEN <<Call("local_search", pop, searched)>>
                       ELSE << >>) :
                      searched \in IF use_ls
                                   THEN local_search(fs, pop, "local_search" \in changes)
                                   ELSE {mutated}} :
                  mutated \in mutation(fs, pop, "mutation" \in changes)} :
           crossed \in crossover(fs, pop, "crossover" \in changes)}

\* update_population (lines 24-43): the calls it makes, in their order, each
\* with the population it is given and the one it returns: crossover,
\* mutation, and with use_ls local search; the population returned (line 43)
\* is the one the last call returned.  changes says which of the calls
\* alter their input
update_population(pop, fs, use_ls, changes) ==
    UNION {UNION {{<<Call("crossover", pop, crossed),
                     Call("mutation", crossed, mutated)>>
                   \o (IF use_ls
                       THEN <<Call("local_search", mutated, searched)>>
                       ELSE << >>) :
                      searched \in IF use_ls
                                   THEN local_search(fs, mutated, "local_search" \in changes)
                                   ELSE {mutated}} :
                  mutated \in mutation(fs, crossed, "mutation" \in changes)} :
           crossed \in crossover(fs, pop, "crossover" \in changes)}

\* line 43, line 101
Returned(trace) == trace[Len(trace)].output

\* The operators that were called, in the order of their calls
Operators(trace) == [i \in 1..Len(trace) |-> trace[i].op]

\* lines 99-107
UpdatePopulation ==
    /\ pc = "update"
    /\ index' = index + 1
    /\ start_time_iteration' = now
    /\ \E changes \in SUBSET {"crossover", "mutation", "local_search"} :
         /\ Cardinality(changes) <= change_left
         /\ change_left' = change_left - Cardinality(changes)
         /\ IF ~Has("use_ls")
            THEN /\ "local_search" \notin changes
                 /\ \E out \in update_population(population, flowshop, FALSE,
                                                 changes) :
                       calls' = Operators(out)
                 /\ pc' = "KeyError"
                 /\ UNCHANGED <<population, list_statistics,
                                overall_best_scheduling, now>>
            ELSE /\ ("local_search" \in changes) => parameters["use_ls"] = 1
                 /\ \E out \in update_population(population, flowshop,
                                                 parameters["use_ls"] = 1,
                                                 changes),
                       d \in env.gen_times :
                      /\ calls' = Operators(out)
                      /\ population' = Returned(out)
                      /\ overall_best_scheduling' =
                             NewOverallBest(overall_best_scheduling,
                                            MinSched(Returned(out)))
                      /\ list_statistics' =
                             AppendStatistics(list_statistics,
                                              population_statistics(Returned(out)))
                      /\ now' = now + d
                      /\ pc' = "restart"
    /\ UNCHANGED <<parameters, iterations_where_restart, iteration_time, flowshop,
                   env,
                   conv_left, restart_log, last_restart>>

\* lines 109-121
RestartStep ==
    /\ pc = "restart"
    /\ \E convergent \in BOOLEAN :
       LET restart == Stagnation(list_statistics, iterations_where_restart, index) IN
         /\ convergent => conv_left > 0
         /\ conv_left' = IF convergent THEN conv_left - 1 ELSE conv_left
         /\ IF RestartDecision(convergent, restart)
            THEN /\ iterations_where_restart' =
                        RecordRestart(iterations_where_restart, index)
                 /\ restart_log' = Append(restart_log,
                                      [stagnation |-> restart, convergent |-> convergent])
                 /\ IF ~Has("preserved_prop")
                    THEN /\ pc' = "KeyError"
                         /\ UNCHANGED <<population, iteration_time, last_restart>>
                    ELSE \E fresh \in random_initial_pop(flowshop,
                                 random_size_of(population, parameters["preserved_prop"])) :
                         IF fresh = Raised
                         THEN /\ pc' = "OperatorFailure"
                              /\ UNCHANGED <<population, iteration_time, last_restart>>
                         ELSE /\ population' = restart_population(
                                      population, parameters["preserved_prop"], fresh)
                              /\ last_restart' =
                                    [at     |-> index,
                                     input  |-> population,
                                     size   |-> preserved_size_of(
                                                   population,
                                                   parameters["preserved_prop"]),
                                     fresh  |-> fresh,
                                     output |-> population',
                                     best   |-> overall_best_scheduling]
                              /\ iteration_time' = now - start_time_iteration
                              /\ pc' = "test"
            ELSE /\ iteration_time' = now - start_time_iteration
                 /\ pc' = "test"
                 /\ UNCHANGED <<population, iterations_where_restart, restart_log,
                                last_restart>>
    /\ UNCHANGED <<parameters, list_statistics, overall_best_scheduling, index,
                   start_time_iteration, now, flowshop, env, change_left, calls>>

Next == Start \/ LoopTest \/ UpdatePopulation \/ RestartStep

----------------------------------------------------------------------------
(* Initial states: the run has not started *)

Params(sizes, limits, use_ls, props) ==
    {[pop_init_size |-> n, time_limit |-> t, use_ls |-> u, preserved_prop |-> p] :
        n \in sizes, t \in limits, u \in use_ls, p \in props}

InitWith(instances, params, envs, changes, convs) ==
    /\ pc = "start"
    /\ flowshop \in instances
    /\ parameters \in params
    /\ env \in envs
    /\ change_left \in changes
    /\ conv_left \in convs
    /\ population = << >>
    /\ list_statistics = << >>
    /\ overall_best_scheduling = NoSchedule
    /\ iterations_where_restart = << >>
    /\ index = 0
    /\ iteration_time = 0
    /\ start_time_iteration = 0
    /\ now = 0
    /\ calls = << >>
    /\ restart_log = << >>
    /\ last_restart = NoRestart

\* The parameters dicts over the given values, and those with one key missing
Without(params, key) ==
    {[k \in DOMAIN prm \ {key} |-> prm[k]] : prm \in params}

OneOrder == {sched \in Schedules : sched.order = "a"}

\* The instances that admit two schedulings
Pairs == {fs \in SUBSET Schedules : Cardinality(fs) = 2}

\* Short runs (generations of 25 seconds: two fit in the minute) over the
\* instances of two schedulings, with every population size and a preserved
\* fraction of 0, 0.5 or 1; at most MaxChange operator calls alter the population and
\* is_convergent answers True at most MaxConv times
Init ==
    InitWith(Pairs, Params(1..MaxPop, {1}, {0, 1}, {0, PropDen \div 2, PropDen}),
             {[gen_times |-> {25}, setup_times |-> {0}, max_gen |-> MaxGen]},
             {MaxChange}, {MaxConv})

Spec == Init /\ [][Next]_vars

\* Long runs, enough generations for two stagnation windows, of a population
\* of 2 with preserved_prop 0.5; one operator call may alter the population
\* and is_convergent may answer True once
InitLong ==
    InitWith({OneOrder}, Params({2}, {1}, {0}, {PropDen \div 2}),
             {[gen_times |-> {1}, setup_times |-> {0}, max_gen |-> MaxGen]},
             {1}, {1})

SpecLong == InitLong /\ [][Next]_vars

\* The end-to-end scenario: 20 members, half of them preserved, operators
\* that hand the population on as it is for 12 generations, never convergent
InitE2E ==
    InitWith({OneOrder}, Params({20}, {1}, {0, 1}, {PropDen \div 2}),
             {[gen_times |-> {1}, setup_times |-> {0}, max_gen |-> 12]},
             {0}, {0})

SpecE2E == InitE2E /\ [][Next]_vars

\* Runs against the clock: generations of 10 seconds, or of 5 or 25, after
\* an initialisation that takes no time, a second or a minute
InitBudget ==
    InitWith({OneOrder}, Params({1}, {0, 1}, {0}, {0, PropDen}),
             {[gen_times |-> g, setup_times |-> {0, 1, SecondsPerMinute},
               max_gen |-> SecondsPerMinute] :
                 g \in {{10}, {5, 25}}},
             {0}, {MaxConv})

SpecBudget == InitBudget /\ [][Next]_vars

\* Runs to their end: generations of 1 second, or of 1 or 2, with operators
\* that hand the population on as it is, no convergence and restarts that
\* preserve the population; the program goes on as long as it has a step to
\* take
InitTermination ==
    InitWith({OneOrder}, Params({1}, {0, 1}, {0}, {PropDen}),
             {[gen_times |-> g, setup_times |-> {0, 1}, max_gen |-> SecondsPerMinute] :
                 g \in {{1}, {1, 2}}},
             {0}, {0})

SpecTermination == InitTermination /\ [][Next]_vars /\ WF_vars(Next)

\* Runs of 25-second generations on a parameters dict that is not valid: a
\* key missing, a negative time_limit, a preserved_prop of -0.25 or 1.25
InitConfig ==
    LET all == Params({2}, {-1, 1}, {0}, {-1, PropDen \div 2, PropDen + 1})
    IN  InitWith({OneOrder},
                 all \cup UNION {Without(all, k) : k \in Keys},
                 {[gen_times |-> {25}, setup_times |-> {0}, max_gen |-> MaxGen]},
                 {MaxChange}, {MaxConv})

SpecConfig == InitConfig /\ [][Next]_vars

\* Runs of five generations of 10 seconds with operators that hand the
\* population on as it is, in which is_convergent may answer True up to
\* MaxConv + 2 times, also at generations that follow each other
InitConv ==
    InitWith({OneOrder}, Params({2}, {1}, {0}, {0, PropDen \div 2}),
             {[gen_times |-> {10}, setup_times |-> {0}, max_gen |-> MaxGen]},
             {0}, {MaxConv + 2})

SpecConv == InitConv /\ [][Next]_vars

\* restart_population on its own: any population of 1..MaxPop members of the
\* instance, any preserved_prop in [0,1]
InitRestart ==
    InitWith({Schedules}, Params(1..MaxPop, {1}, {0}, 0..PropDen),
             {[gen_times |-> {1}, setup_times |-> {0}, max_gen |-> 1]},
             {0}, {0})

RestartCall ==
    /\ pc = "start"
    /\ \E pop \in PopsOf(flowshop, parameters["pop_init_size"]) :
       \E fresh \in random_initial_pop(flowshop,
                        random_size_of(pop, parameters["preserved_prop"])) :
          /\ population' = restart_population(pop, parameters["preserved_prop"], fresh)
          /\ last_restart' =
                [at     |-> 1,
                 input  |-> pop,
                 size   |-> preserved_size_of(pop, parameters["preserved_prop"]),
                 fresh  |-> fresh,
                 output |-> population',
                 best   |-> overall_best_scheduling]
    /\ pc' = "restarted"
    /\ UNCHANGED <<parameters, list_statistics, overall_best_scheduling,
                   iterations_where_restart, index, iteration_time,
                   start_time_iteration, now, flowshop, env, change_left,
                   conv_left, calls, restart_log>>

SpecRestart == InitRestart /\ [][RestartCall]_vars

\* update_population on its own, on the initial population: any population
\* of 1..MaxPop members of an instance of two schedulings, with and without
\* use_ls, each operator altering the population it is given or not
InitUpdate ==
    InitWith(Pairs, Params(1..MaxPop, {1}, {0, 1}, {0}),
             {[gen_times |-> {1}, setup_times |-> {0}, max_gen |-> 1]},
             {0}, {0})

UpdateCall ==
    /\ pc = "test"
    /\ \E changes \in SUBSET {"crossover", "mutation", "local_search"} :
          /\ ("local_search" \in changes) => parameters["use_ls"] = 1
          /\ \E out \in update_population(population, flowshop,
                                          parameters["use_ls"] = 1, changes) :
                /\ calls' = out
                /\ population' = Returned(out)
    /\ pc' = "updated"
    /\ UNCHANGED <<parameters, list_statistics, overall_best_scheduling,
                   iterations_where_restart, index, iteration_time,
                   start_time_iteration, now, flowshop, env, change_left,
                   conv_left, restart_log, last_restart>>

SpecUpdate == InitUpdate /\ [][Start \/ UpdateCall]_vars

----------------------------------------------------------------------------
(* find_best_ordo_in_list (src/memetic.py) *)

\* The comparison of line 20 with <= : a later member of the same duration
\* takes the place of the best
BetterOrEqual(ordo, best_ordo) == duree(ordo) <= duree(best_ordo)

\* line 20
Better(ordo, best_ordo) == duree(ordo) < duree(best_ordo)

\* lines 19-21: the loop from member i on, best_ordo being the best so far
RECURSIVE FindBestFrom(_, _, _)
FindBestFrom(list_ordo, best_ordo, i) ==
    IF i > Len(list_ordo) THEN best_ordo
    ELSE FindBestFrom(list_ordo,
                      IF Better(list_ordo[i], best_ordo) THEN list_ordo[i]
                      ELSE best_ordo,
                      i + 1)

\* lines 17-22
find_best_ordo_in_list(list_ordo) ==
    FindBestFrom(list_ordo, list_ordo[1], 1)

\* Every list of n members of the instance
ListsOf(fs, n) == [1..n -> fs]

\* find_best_ordo_in_list on its own: any list of 1..MaxPop+1 members of an
\* instance of two schedulings or of the instance of all
InitBest ==
    InitWith(Pairs \cup {Schedules}, Params(1..(MaxPop + 1), {1}, {0}, {0}),
             {[gen_times |-> {1}, setup_times |-> {0}, max_gen |-> 1]},
             {0}, {0})

BestCall ==
    /\ pc = "start"
    /\ \E list_ordo \in ListsOf(flowshop, parameters["pop_init_size"]) :
          /\ population' = list_ordo
          /\ overall_best_scheduling' = find_best_ordo_in_list(list_ordo)
    /\ pc' = "selected"
    /\ UNCHANGED <<parameters, list_statistics, iterations_where_restart, index,
                   iteration_time, start_time_iteration, now, flowshop, env,
                   change_left, conv_left, calls, restart_log, last_restart>>

SpecBest == InitBest /\ [][BestCall]_vars

----------------------------------------------------------------------------
(* Properties *)

Last(seq) == seq[Len(seq)]

MinAt(i) == list_statistics[i + 1][2]

\* The loop boundary reached after generation index was run
AtBoundary == pc = "test" /\ index >= 1

\* The min-duration component is the same at history indices index-9..index
\* and no restart is recorded at a generation in index-9..index-1
Stagnant ==
    /\ index >= Window - 1
    /\ \A i \in (index - (Window - 1))..index : MinAt(i) = MinAt(index)
    /\ \A j \in 1..Len(iterations_where_restart) :
          iterations_where_restart[j] \notin (index - (Window - 1))..(index - 1)

RestartedNow ==
    /\ iterations_where_restart # << >>
    /\ Last(iterations_where_restart) = index
    /\ last_restart.at = index
    /\ population = last_restart.output

\* C1: when the min-duration component is constant over history indices
\* k-9..k and no restart was recorded in k-9..k-1, generation k is recorded
\* in the restart list and the population is the restarted one at the loop
\* boundary after generation k, whatever is_convergent answered.
C1_StagnationTrigger ==
    (AtBoundary /\ Stagnant) => RestartedNow

\* C1 witness: a stagnation restart at a generation where is_convergent
\* answered False
C1_Witness ==
    /\ AtBoundary /\ Stagnant /\ RestartedNow
    /\ ~Last(restart_log).convergent

\* C8: two restarts that the stagnation test triggered are recorded at
\* generations at least 10 apart.
C8_RestartRateLimit ==
    \A i, j \in 1..Len(iterations_where_restart) :
        (i < j /\ restart_log[i].stagnation /\ restart_log[j].stagnation)
            => iterations_where_restart[j] - iterations_where_restart[i] >= Window

\* C8 witness: two stagnation restarts in one run
C8_Witness ==
    \E i, j \in 1..Len(iterations_where_restart) :
        i < j /\ restart_log[i].stagnation /\ restart_log[j].stagnation

\* C9: the restart list is strictly increasing, holds only generation
\* indices between 1 and the current one, and holds none twice.
C9_RestartIndicesWellFormed ==
    /\ \A i \in 1..Len(iterations_where_restart) :
          /\ iterations_where_restart[i] >= 1
          /\ iterations_where_restart[i] <= index
    /\ \A i, j \in 1..Len(iterations_where_restart) :
          i < j => iterations_where_restart[i] < iterations_where_restart[j]

\* C9 witness: a second restart, at a generation where stagnation and
\* convergence both hold
C9_Witness ==
    /\ Len(iterations_where_restart) >= 2
    /\ Last(restart_log).stagnation
    /\ Last(restart_log).convergent

Running == pc \in {"test", "update", "restart", "done"}

Members(pop) == {pop[i] : i \in 1..Len(pop)}

\* C3: once recorded, the best-observed scheduling never gets a higher
\* duration; it is replaced only in a generation, by a member of that
\* generation's population of strictly lower duration, and otherwise kept.
C3_MonotoneBest ==
    [][Running =>
         /\ duree(overall_best_scheduling') <= duree(overall_best_scheduling)
         /\ overall_best_scheduling' # overall_best_scheduling =>
               /\ index' = index + 1
               /\ overall_best_scheduling' \in Members(population')
               /\ duree(overall_best_scheduling') < duree(overall_best_scheduling)
      ]_vars

\* C3 witness: a generation whose best has the duration of the recorded
\* best and is another scheduling; the recorded one was kept
C3_Witness ==
    /\ pc = "restart"
    /\ duree(MinSched(population)) = duree(overall_best_scheduling)
    /\ MinSched(population) # overall_best_scheduling

\* C4: at every loop boundary the history holds one entry per completed
\* generation plus the initial one; a generation appends exactly one
\* entry, and no step changes or removes an entry already written.
C4_StatisticsAppendOnly ==
    /\ [](pc = "test" => Len(list_statistics) = index + 1)
    /\ [][Running =>
            /\ SubSeq(list_statistics', 1, Len(list_statistics)) = list_statistics
            /\ Len(list_statistics') =
                  Len(list_statistics) + (IF index' = index + 1 THEN 1 ELSE 0)
         ]_vars

\* C4 witness: a loop boundary after a restart and two generations
C4_Witness ==
    /\ pc = "test"
    /\ index >= 2
    /\ iterations_where_restart # << >>
    /\ list_statistics[index][2] # list_statistics[index + 1][2]

Count(seq, x) == Cardinality({i \in 1..Len(seq) : seq[i] = x})

\* C6: a restart of N members with preserved_prop = p in [0,1] returns N
\* members: floor(p*N) members of the input followed by N - floor(p*N)
\* fresh random ones, and no preserved member lasts longer than an input
\* member that was not preserved.
C6_RestartComposition ==
    last_restart.at > 0 =>
        LET input  == last_restart.input
            output == last_restart.output
            n      == Len(input)
            kept   == (n * parameters["preserved_prop"]) \div PropDen
            head   == SubSeq(output, 1, kept)
        IN  /\ Len(output) = n
            /\ Len(last_restart.fresh) = n - kept
            /\ SubSeq(output, kept + 1, n) = last_restart.fresh
            /\ \A x \in Members(head) : Count(head, x) <= Count(input, x)
            /\ \A x \in Members(head), y \in Members(input) :
                  Count(input, y) > Count(head, y) => duree(x) <= duree(y)

\* C6 witness: a restart that preserved some members and not others, of an
\* input whose first member is not one of its best
C6_Witness ==
    /\ last_restart.at > 0
    /\ last_restart.size > 0
    /\ last_restart.size < Len(last_restart.input)
    /\ duree(last_restart.input[1]) > duree(MinSched(last_restart.input))

\* C7: the population has pop_init_size members before update_population,
\* after it, and after restart_population, at every generation.
C7_SizeInvariant ==
    Running => Len(population) = parameters["pop_init_size"]

\* C7 witness: the loop boundary after a restart that preserved a part of
\* the population
C7_Witness ==
    /\ pc = "test"
    /\ RestartedNow
    /\ last_restart.size > 0
    /\ last_restart.fresh # << >>

\* C2 as stated: in the end-to-end scenario the one restart is at
\* generation 10.
C2_RestartAtGeneration10 ==
    (pc = "test" /\ index = 12) => iterations_where_restart = <<10>>

\* C2 amended: in the end-to-end scenario (20 members, preserved_prop 0.5,
\* never convergent, operators that change nothing for 12 generations)
\* exactly one restart is recorded and it is at generation 9; the
\* population after it is 10 preserved members followed by 10 fresh random
\* ones, and the best-observed scheduling is the one of before the restart.
C2_EndToEnd ==
    /\ (Running /\ index < Window - 1) => iterations_where_restart = << >>
    /\ (pc = "test" /\ index >= Window - 1) =>
          /\ iterations_where_restart = <<Window - 1>>
          /\ last_restart.at = Window - 1
          /\ Len(last_restart.output) = 20
          /\ Len(last_restart.fresh) = 10
          /\ SubSeq(last_restart.output, 11, 20) = last_restart.fresh
          /\ \A i \in 1..10 : last_restart.output[i] \in Members(last_restart.input)
    /\ (pc = "test" /\ index = Window - 1) =>
          /\ population = last_restart.output
          /\ overall_best_scheduling = last_restart.best

\* C2 witness: the scenario after its 12 generations, with fresh members
\* that are better than the preserved ones
C2_Witness ==
    /\ pc = "test"
    /\ index = 12
    /\ Len(iterations_where_restart) = 1
    /\ duree(population[20]) < duree(population[1])

ScenarioTenSeconds ==
    /\ env.gen_times = {10}
    /\ parameters["time_limit"] = 1

\* C5: a generation is started only when elapsed time + duration of the
\* previous generation (0 before the first) + 1 second < 60 * time_limit,
\* and the run returns when the test fails; with time_limit = 1 and
\* generations of 10 seconds no more than 5 generations are run.
C5_BudgetGuard ==
    /\ [](index = 0 => iteration_time = 0)
    /\ [](ScenarioTenSeconds => index <= 5)
    /\ [][/\ index' # index =>
                /\ index' = index + 1
                /\ pc = "update"
          /\ pc' = "update" =>
                now + iteration_time + 1 < 60 * parameters["time_limit"]
          /\ (pc = "test" /\ ~(now + iteration_time + 1 < 60 * parameters["time_limit"]))
                => pc' = "done"
          /\ (pc = "restart" /\ pc' = "test") =>
                iteration_time' = now - start_time_iteration
          /\ pc = "done" => pc' = "done"
         ]_vars

\* C5 witness: the run of 10-second generations returned after its fifth
C5_Witness ==
    /\ ScenarioTenSeconds
    /\ pc = "done"
    /\ index = 5

BadConfiguration ==
    \/ Keys \ DOMAIN parameters # {}
    \/ (Has("time_limit") /\ parameters["time_limit"] < 0)
    \/ (Has("preserved_prop") /\ (parameters["preserved_prop"] < 0
                                   \/ parameters["preserved_prop"] > PropDen))

\* C10 as stated: with a missing parameter, a negative time_limit or a
\* preserved_prop outside [0,1] the run fails before any generation and
\* returns no result.
C10_FailsFast ==
    BadConfiguration => (index = 0 /\ pc # "done")

\* C10 amended: the only error is the KeyError of a missing parameter,
\* raised where the parameter is first read: before any generation for
\* pop_init_size and time_limit, in the first generation for use_ls, at the
\* first restart for preserved_prop.  A negative time_limit is no error: the
\* run returns the initial statistics entry, the best initial member and an
\* empty restart list, with no generation run.  A preserved_prop outside
\* [0,1] is not checked: generations run, and it is read at the first restart.
C10_ConfigurationErrors ==
    /\ pc = "KeyError" => Keys \ DOMAIN parameters # {}
    /\ pc = "OperatorFailure" =>
          /\ parameters["preserved_prop"] > PropDen
          /\ index >= 1
          /\ Last(iterations_where_restart) = index
    /\ ~Has("pop_init_size") => pc \in {"start", "KeyError"}
    /\ (~Has("pop_init_size") \/ ~Has("time_limit")) => (index = 0 /\ pc # "done")
    /\ (pc = "KeyError" /\ Has("pop_init_size") /\ Has("time_limit")
            /\ Has("preserved_prop")) => (index = 1 /\ calls # << >>)
    /\ (pc = "KeyError" /\ Has("pop_init_size") /\ Has("time_limit")
            /\ Has("use_ls")) => (index >= 1 /\ Last(iterations_where_restart) = index)
    /\ (Has("pop_init_size") /\ Has("time_limit") /\ parameters["time_limit"] < 0) =>
          /\ pc \in {"start", "test", "done"}
          /\ index = 0
          /\ calls = << >>
          /\ pc = "done" =>
                /\ Len(list_statistics) = 1
                /\ overall_best_scheduling \in Members(population)
                /\ iterations_where_restart = << >>

\* C10 witness: a run with a negative time_limit that returned
C10_Witness ==
    /\ Has("time_limit") /\ parameters["time_limit"] < 0
    /\ pc = "done"

\* C11 as stated: for every preserved_prop in [0,1] and every N >= 1 the
\* population that restart_population returns holds a minimum-duration
\* member of its input, and its minimum duration is no higher than the
\* input's.
C11_NeverDiscardsBest ==
    last_restart.at > 0 =>
        /\ \E x \in Members(last_restart.output) :
              /\ x \in Members(last_restart.input)
              /\ duree(x) = MinOf(Durees(last_restart.input))
        /\ MinOf(Durees(last_restart.output)) <= MinOf(Durees(last_restart.input))

\* C11 amended: when int(N * preserved_prop) >= 1 the returned population
\* starts with the first minimum-duration member of the input, so its
\* minimum duration is no higher than the input's; when
\* int(N * preserved_prop) = 0 it holds the fresh random members and nothing
\* else.
C11_KeepsBestWhenPreserving ==
    last_restart.at > 0 =>
        LET input  == last_restart.input
            output == last_restart.output
            kept   == (Len(input) * parameters["preserved_prop"]) \div PropDen
        IN  /\ kept >= 1 =>
                  /\ output[1] = MinSched(input)
                  /\ MinOf(Durees(output)) <= MinOf(Durees(input))
                  /\ MinOf(Durees(output)) =
                        MinOf(Durees(input) \cup Durees(last_restart.fresh))
            /\ kept = 0 => output = last_restart.fresh

\* C11 witness: a restart that preserved a part of a population whose best
\* member is not the first, and brought in fresh members that all last longer
C11_Witness ==
    /\ last_restart.at > 0
    /\ last_restart.size >= 1
    /\ last_restart.fresh # << >>
    /\ last_restart.input[1] # MinSched(last_restart.input)
    /\ \A x \in Members(last_restart.fresh) :
          duree(x) > MinOf(Durees(last_restart.input))

\* C12 as stated: when the run returns, the elapsed time is below
\* 60 * time_limit plus the duration of the last generation run, and below
\* 60 * time_limit when no generation was run.
C12_OverrunBounded ==
    pc = "done" =>
        IF index >= 1
        THEN now < SecondsPerMinute * parameters["time_limit"] + iteration_time
        ELSE now < SecondsPerMinute * parameters["time_limit"]

\* C12 amended: when the run returns after at least one generation, the
\* elapsed time is below 60 * time_limit plus the duration of the last
\* generation run (that generation was started before 60 * time_limit - 1);
\* when it returns with no generation run, the elapsed time is the time the
\* initialisation took, it is at least 60 * time_limit - 1 and it may be
\* 60 * time_limit or more.
C12_OverrunBoundedByLastGeneration ==
    pc = "done" =>
        /\ index >= 1 =>
              /\ iteration_time = now - start_time_iteration
              /\ start_time_iteration + SafetyMargin
                     < SecondsPerMinute * parameters["time_limit"]
              /\ now < SecondsPerMinute * parameters["time_limit"] + iteration_time
        /\ index = 0 =>
              /\ now \in env.setup_times
              /\ now >= SecondsPerMinute * parameters["time_limit"] - SafetyMargin

\* C12 witness: a run that returned past its budget, after a last
\* generation longer than the one before
C12_Witness ==
    /\ pc = "done"
    /\ index >= 2
    /\ now > SecondsPerMinute * parameters["time_limit"]

\* C13: for a non-empty list, find_best_ordo_in_list returns a member whose
\* duration is no higher than any member's, and among the members of that
\* duration the one that comes first in the list; min(population,
\* key=duree) of memetic_heuristic picks the same member.
C13_BestSelection ==
    pc = "selected" =>
        \E i \in 1..Len(population) :
            /\ overall_best_scheduling = population[i]
            /\ \A j \in 1..Len(population) :
                  duree(population[i]) <= duree(population[j])
            /\ \A j \in 1..(i - 1) : duree(population[j]) > duree(population[i])
            /\ MinSched(population) = population[i]

\* C13 witness: a list whose first member is not a best one and in which
\* two different schedulings share the minimum duration
C13_Witness ==
    /\ pc = "selected"
    /\ Len(population) = 3
    /\ duree(population[1]) > duree(population[2])
    /\ duree(population[3]) = duree(population[2])
    /\ population[3] # population[2]
    /\ overall_best_scheduling = population[2]

\* C14: the restart list changes only by generation k being appended to it
\* in the restart step of generation k, and only when is_convergent answered
\* True for the population that generation produced, or when the history
\* holds at least 10 entries, the min-duration components of its last 10
\* entries are equal, and no restart is recorded or the last one recorded is
\* at generation k-10 or before.
C14_RestartOnlyForReason ==
    [][iterations_where_restart' # iterations_where_restart =>
         /\ pc = "restart"
         /\ iterations_where_restart' = Append(iterations_where_restart, index)
         /\ index' = index
         /\ list_statistics' = list_statistics
         /\ \/ Last(restart_log').convergent
            \/ /\ Len(list_statistics) >= Window
               /\ \A i \in (Len(list_statistics) - Window + 1)..Len(list_statistics) :
                     list_statistics[i][2] = list_statistics[Len(list_statistics)][2]
               /\ \/ iterations_where_restart = << >>
                  \/ Last(iterations_where_restart) <= index - Window
      ]_vars

\* C14 witness: a run with a restart that convergence alone caused and a
\* restart that stagnation alone caused
C14_Witness ==
    /\ \E i \in 1..Len(restart_log) :
          restart_log[i].convergent /\ ~restart_log[i].stagnation
    /\ \E j \in 1..Len(restart_log) :
          restart_log[j].stagnation /\ ~restart_log[j].convergent

\* C15: at every generation where is_convergent answers True the generation
\* index is appended to the restart list and the population is restarted,
\* also when the generation before is in the restart list; so every True
\* answer of the run so far has its restart recorded, and m generations in a
\* row with a True answer give m restart indices in a row.
C15_ConvergenceNotRateLimited ==
    /\ [](Cardinality({i \in 1..Len(restart_log) : restart_log[i].convergent})
             = (MaxConv + 2) - conv_left)
    /\ [][(pc = "restart" /\ conv_left' # conv_left) =>
            /\ conv_left' = conv_left - 1
            /\ iterations_where_restart' = Append(iterations_where_restart, index)
            /\ Last(restart_log').convergent
            /\ last_restart'.at = index
            /\ last_restart'.input = population
            /\ population' = last_restart'.output
            /\ pc' = "test"
         ]_vars

\* C15 witness: restarts recorded at three generations in a row, none of
\* them for stagnation
C15_Witness ==
    /\ pc = "test"
    /\ \E k \in 1..index : iterations_where_restart = <<k, k + 1, k + 2>>
    /\ \A i \in 1..Len(restart_log) : ~restart_log[i].stagnation

\* C16: update_population calls crossover on the population it is given,
\* then mutation on what crossover returned, then local search on what
\* mutation returned if and only if use_ls is true, and returns what the
\* last call returned; with use_ls false there are two calls, none of local
\* search, and the population returned is the one mutation returned.
C16_PipelineOrder ==
    [][pc' = "updated" =>
         /\ Len(calls') = IF parameters["use_ls"] = 1 THEN 3 ELSE 2
         /\ calls'[1].op = "crossover"
         /\ calls'[1].input = population
         /\ calls'[2].op = "mutation"
         /\ calls'[2].input = calls'[1].output
         /\ parameters["use_ls"] = 1 =>
               /\ calls'[3].op = "local_search"
               /\ calls'[3].input = calls'[2].output
               /\ population' = calls'[3].output
         /\ parameters["use_ls"] # 1 =>
               /\ \A i \in 1..Len(calls') : calls'[i].op # "local_search"
               /\ population' = calls'[2].output
      ]_vars

\* C16 witness: a call with use_ls in which crossover, mutation and local
\* search each returned another population than the one they were given
C16_Witness ==
    /\ pc = "updated"
    /\ Len(calls) = 3
    /\ \A i \in 1..3 : calls[i].output # calls[i].input
    /\ calls[3].output # calls[1].input

\* C17: when the run returns, the best-observed scheduling lasts no longer
\* than any scheduling that was a member of the population during the run:
\* the members of the initial population and of every generation's
\* population (their minimum is in the history), the members of the
\* population a restart returned, fresh ones included, and the members of
\* the final population.
C17_ReturnedBestIsBestEverHeld ==
    pc = "done" =>
        /\ \A i \in 1..Len(list_statistics) :
              duree(overall_best_scheduling) <= list_statistics[i][2]
        /\ \A x \in Members(last_restart.output) :
              duree(overall_best_scheduling) <= duree(x)
        /\ \A x \in Members(population) :
              duree(overall_best_scheduling) <= duree(x)

\* C18: with a finite time_limit and generations that each advance the
\* clock by at least one second, the budget test eventually fails and the
\* run returns; no more than 60 * time_limit generations are run.
C18_Termination ==
    /\ <>(pc = "done")
    /\ [](index <= SecondsPerMinute * parameters["time_limit"])
    /\ [][pc' = "done" =>
            /\ pc \in {"test", "done"}
            /\ ~(now + iteration_time + 1 < 60 * parameters["time_limit"])
         ]_vars

\* C18 witness: the run of one-second generations returned, after its 58th
C18_Witness ==
    /\ pc = "done"
    /\ env.gen_times = {1}
    /\ index = SecondsPerMinute - 2

\* C19: a restart at generation k replaces the population and appends k to
\* the restart list; it leaves the best-observed scheduling, the generation
\* index and every history entry as they are, and the entry of generation k
\* stays the statistics of the population of before the restart.
C19_RestartFrame ==
    [][(pc = "restart" /\ pc' = "test"
            /\ iterations_where_restart' # iterations_where_restart) =>
         /\ iterations_where_restart' = Append(iterations_where_restart, index)
         /\ population' = last_restart'.output
         /\ last_restart'.input = population
         /\ overall_best_scheduling' = overall_best_scheduling
         /\ index' = index
         /\ list_statistics' = list_statistics
         /\ Len(list_statistics') = index + 1
         /\ list_statistics'[index + 1] = population_statistics(population)
         /\ parameters' = parameters
         /\ flowshop' = flowshop
      ]_vars

\* C19 witness: the loop boundary after a second restart, whose population
\* has another minimum duration than the history entry of its generation
C19_Witness ==
    /\ pc = "test"
    /\ RestartedNow
    /\ Len(iterations_where_restart) >= 2
    /\ MinOf(Durees(population)) # list_statistics[index + 1][2]

\* C20: at every loop boundary and at the return, population_statistics
\* reporting the minimum duration of the population it is given, the
\* duration of the best-observed scheduling is the minimum of the
\* min-duration components of the history entries recorded so far.
C20_BestAgreesWithHistory ==
    pc \in {"test", "done"} =>
        duree(overall_best_scheduling) =
            MinOf({list_statistics[i][2] : i \in 1..Len(list_statistics)})

\* C20 witness: a loop boundary where the newest history entry has a higher
\* minimum than an earlier one and the best-observed scheduling is no
\* member of the population
C20_Witness ==
    /\ pc = "test"
    /\ index >= 1
    /\ Last(list_statistics)[2] > duree(overall_best_scheduling)
    /\ overall_best_scheduling \notin Members(population)

=============================================================================
